---- MODULE Spec2Model ----
(***************************************************************************)
(* Recording session lifecycle and offline-first synchronisation core of   *)
(* the XoW booth recorder: the recorder screen (frontend/app/recorder.tsx, *)
(* both revisions held in that file), the gallery screen (unnamed/part_005)*)
(* the AsyncStorage slot 'xow_local_recordings' they share, and the remote *)
(* service they call.                                                      *)
(*                                                                         *)
(* Every await of the source is a suspension point: a handler is a chain   *)
(* of actions, one per stretch of code that runs between two awaits.       *)
(* React state read by an async handler is the value of the render that    *)
(* created the handler (its closure); the closure of stopRecording is kept *)
(* in stop.cl.                                                             *)
(***************************************************************************)
EXTENDS Integers, Sequences, FiniteSets, TLC

\* ------------------------------------------------------------------ bounds
MaxSessions == 2     \* recordings started in one run (local identifiers 1..MaxSessions)
MaxPrior    == 1     \* records persisted by earlier runs of the app
MaxStored   == 2     \* the same, where the gallery only lists and deletes
MaxScans    == 2     \* badge scans accepted per session
MaxNow      == 3     \* Date.now() runs over 0..MaxNow, in units of 1/SubSec s
SubSec      == 2     \* clock units per second (resolution of Date.now())
MaxFrame    == 1     \* the frame counter is followed up to this value
MaxPolls    == 2     \* iterations of the video poll loop (100 in the code)
MaxProms    == 2     \* promotions started (recorder auto-upload + gallery)
MaxFetches  == 2     \* fetchRecordings calls started
MaxDeletes  == 1     \* gallery deletions started
MaxPosts    == 2     \* create requests of the earlier startRecording

Payloads == {"B1"}   \* badge payloads typed into the input (trimmed, non-empty)

VARIABLES
  now,                  \* Date.now()
  device,               \* recorder: device loaded from 'xow_device'
  hasCamera,            \* cameraRef.current && Platform.OS !== 'web'
  isOnline, autoUpload,
  isRecording, isSaving, currentRecording,
  recordingTime, frameCount, barcodeScans, barcodeCount,
  videoRecordingActive, videoUriRef, recordingStartTime,
  timerRef, frameTimerRef, \* interval handles held by the refs (0: null)
  timers,               \* live 1 Hz intervals: handle -> [t0, n]
  frameTimers,          \* live frame intervals (handles)
  nextHandle, nextLocal,
  cameraPending,        \* recordAsync promises not yet settled (by session)
  audioPrep,            \* startRecording calls suspended at prepareToRecordAsync
  audioRecorder,        \* [recording, uri] of the shared audio recorder
  stop,                 \* the stopRecording call in progress
  storage,              \* AsyncStorage 'xow_local_recordings' (parsed)
  files,                \* media files on disk
  remoteDb,             \* recordings held by the remote service
  proms,                \* promotions, in the order they were started
  galleryOpen, recordings, uploadingId, deletingId,
  fetches, deletes,     \* gallery calls, in the order they were started
  posts, eAudio, eStop  \* earlier revision: create posts in flight, audio, stop

recVars  == <<isRecording, isSaving, currentRecording, recordingTime, frameCount,
              barcodeScans, barcodeCount, videoRecordingActive, videoUriRef,
              recordingStartTime>>
timVars  == <<timerRef, frameTimerRef, timers, frameTimers, nextHandle>>
capVars  == <<cameraPending, audioPrep, audioRecorder>>
envVars  == <<device, hasCamera, isOnline, autoUpload>>
galVars  == <<galleryOpen, recordings, uploadingId, deletingId, fetches, deletes>>
earlyVars == <<posts, eAudio, eStop>>
vars == <<now, envVars, recVars, timVars, capVars, nextLocal, stop, storage, files,
          remoteDb, proms, galVars, earlyVars>>

\* ------------------------------------------------------------------ helpers
Null == 0                       \* null / '' / absent handle

\* Local identifiers ('rec_...') are positive, identifiers given out by the remote
\* service are negative: the two kinds of string never coincide.
Rid(index) == 0 - index
Idx(rid)   == 0 - rid

\* a record left in the store by an earlier run: video and audio on disk, one badge
\* scanned at the start, not uploaded
PriorId(k) == MaxSessions + k
PriorRecord(k) ==
  [id |-> Null, localId |-> PriorId(k), videoPath |-> PriorId(k), audioPath |-> PriorId(k),
   barcodeScansList |-> <<[barcode_data |-> "B1", video_timestamp |-> 0, frame_code |-> 0]>>,
   duration |-> 0, createdAt |-> 0, isUploaded |-> FALSE]

NoClosure == [cr |-> Null, vra |-> FALSE, scans |-> <<>>, rt |-> 0, bc |-> 0,
              au |-> FALSE, on |-> FALSE]
StopIdle == [pc |-> "idle", cl |-> NoClosure, i |-> 0, videoUri |-> Null,
             rec |-> Null, existing |-> <<>>]
\* the stopRecording call of the earlier revision: where it is, and the recording
\* its closure holds
EarlyStopIdle == [pc |-> "idle", cr |-> Null]

\* new interval handles created by one start: the 1 Hz timer and the frame timer
SecHandle   == nextHandle
FrameHandle == nextHandle + 1

\* clearInterval(h): a handle that is not live is ignored
ClearInterval(f, h) == [k \in (DOMAIN f) \ {h} |-> f[k]]

\* r => findIndex(r.localId === id); 0 stands for -1
FindIndex(list, id) ==
  IF \E k \in 1..Len(list) : list[k].localId = id
  THEN CHOOSE k \in 1..Len(list) :
         /\ list[k].localId = id
         /\ \A j \in 1..(k-1) : list[j].localId # id
  ELSE 0

\* list.filter(r => r.localId !== id)
RECURSIVE FilterOut(_, _)
FilterOut(list, id) ==
  IF list = <<>> THEN <<>>
  ELSE IF Head(list).localId = id THEN FilterOut(Tail(list), id)
       ELSE <<Head(list)>> \o FilterOut(Tail(list), id)

\* ------------------------------------------------------------------ Init
\* the recorder screen has mounted; nothing has been loaded yet
Mounted ==
  /\ now = 0
  /\ device = FALSE
  /\ hasCamera \in BOOLEAN
  /\ isOnline = TRUE
  /\ autoUpload = FALSE
  /\ isRecording = FALSE
  /\ isSaving = FALSE
  /\ currentRecording = Null
  /\ recordingTime = 0
  /\ frameCount = 0
  /\ barcodeScans = <<>>
  /\ barcodeCount = 0
  /\ videoRecordingActive = FALSE
  /\ videoUriRef = Null
  /\ recordingStartTime = 0
  /\ timerRef = Null
  /\ frameTimerRef = Null
  /\ timers = <<>>
  /\ frameTimers = {}
  /\ nextHandle = 1
  /\ nextLocal = 1
  /\ cameraPending = {}
  /\ audioPrep = {}
  /\ audioRecorder = [recording |-> FALSE, uri |-> Null]
  /\ stop = StopIdle
  /\ remoteDb = <<>>
  /\ proms = <<>>
  /\ galleryOpen = FALSE
  /\ recordings = <<>>
  /\ uploadingId = Null
  /\ deletingId = Null
  /\ fetches = <<>>
  /\ deletes = <<>>
  /\ posts = 0
  /\ eAudio = 0
  /\ eStop = EarlyStopIdle

\* a fresh installation: the store holds no record
Init ==
  /\ Mounted
  /\ storage = <<>>
  /\ files = {}

\* the store holds the records of earlier runs, newest first, with their media on disk
InitPrior ==
  /\ Mounted
  /\ \E n \in 1..MaxPrior :
       /\ storage = [k \in 1..n |-> PriorRecord(n + 1 - k)]
       /\ files = {<<"video", PriorId(k)>> : k \in 1..n}
                    \cup {<<"audio", PriorId(k)>> : k \in 1..n}

\* the same with up to MaxStored records
InitStored ==
  /\ Mounted
  /\ \E n \in 1..MaxStored :
       /\ storage = [k \in 1..n |-> PriorRecord(n + 1 - k)]
       /\ files = {<<"video", PriorId(k)>> : k \in 1..n}
                    \cup {<<"audio", PriorId(k)>> : k \in 1..n}

\* ------------------------------------------------------------------ environment
\* wall-clock time passes
Advance ==
  /\ now < MaxNow
  /\ now' = now + 1
  /\ UNCHANGED <<envVars, recVars, timVars, capVars, nextLocal, stop, storage, files,
                 remoteDb, proms, galVars, earlyVars>>

\* mount effect: the device identifier is read; RECORD and the gallery need it
loadDevice ==
  /\ ~device
  /\ device' = TRUE
  /\ UNCHANGED <<now, hasCamera, isOnline, autoUpload, recVars, timVars,
                 capVars, nextLocal, stop, storage, files, remoteDb, proms, galVars,
                 earlyVars>>

\* mount effect: the saved auto-upload preference is read, and it is 'true' (with
\* 'false' or nothing saved the state stays as it is)
loadSettings ==
  /\ ~device
  /\ ~autoUpload
  /\ \E saved \in {TRUE} : autoUpload' = saved
  /\ UNCHANGED <<now, device, hasCamera, isOnline, recVars, timVars, capVars, nextLocal,
                 stop, storage, files, remoteDb, proms, galVars, earlyVars>>

\* mount effect: the health request settles (the later 10 s samples are not followed)
checkConnection ==
  /\ \E ok \in BOOLEAN : isOnline' = ok
  /\ isOnline' # isOnline
  /\ ~device
  /\ UNCHANGED <<now, device, hasCamera, autoUpload, recVars, timVars,
                 capVars, nextLocal, stop, storage, files, remoteDb, proms, galVars,
                 earlyVars>>

\* a later sample of the 10 s connection interval settles while the recorder is in use
checkConnection_interval ==
  /\ device
  /\ \E ok \in BOOLEAN : isOnline' = ok
  /\ isOnline' # isOnline
  /\ UNCHANGED <<now, device, hasCamera, autoUpload, recVars, timVars,
                 capVars, nextLocal, stop, storage, files, remoteDb, proms, galVars,
                 earlyVars>>

\* ------------------------------------------------------------------ remote service
RemoteEntry(forLocal) ==
  [forLocal |-> forLocal, start_time |-> now, has_video |-> FALSE, has_audio |-> FALSE,
   scans |-> <<>>, status |-> "recording", deleted |-> FALSE]

\* POST /api/recordings
RemoteCreate(db, forLocal) == Append(db, RemoteEntry(forLocal))
\* POST /api/recordings/{id}/upload-video, upload-audio
RemoteVideo(db, rid) == [db EXCEPT ![Idx(rid)].has_video = TRUE]
RemoteAudio(db, rid) == [db EXCEPT ![Idx(rid)].has_audio = TRUE]
\* POST /api/barcodes
RemoteScan(db, rid, scan) == [db EXCEPT ![Idx(rid)].scans = Append(@, scan)]
\* PUT /api/recordings/{id}/complete
RemoteComplete(db, rid) == [db EXCEPT ![Idx(rid)].status = "completed"]
\* a request on an entry the service no longer holds cannot succeed
Reachable(rid) == ~remoteDb[Idx(rid)].deleted

\* ------------------------------------------------------------------ promotions
\* One promotion: recorder.tsx uploadRecordingToCloud (path "rec") or the gallery's
\* uploadToCloud (path "gal"). log lists the requests it has issued.
\* a request the promotion has issued, and whether it succeeded
Req(call, ok) == [call |-> call, ok |-> ok]

NewProm(path, recording) ==
  [path |-> path, rec |-> recording, pc |-> "create", rid |-> Null, k |-> 1,
   list |-> <<>>, log |-> <<>>, outcome |-> "running"]

\* mutant: the scan submissions are left out
AfterAudio_noscans(recording) == "complete"

AfterAudio(recording) ==
  IF Len(recording.barcodeScansList) > 0 THEN "scan" ELSE "complete"
AfterVideo(recording) ==
  IF recording.audioPath # Null THEN "audio" ELSE AfterAudio(recording)
AfterCreate(recording) ==
  IF recording.videoPath # Null THEN "video" ELSE AfterVideo(recording)

\* mutant: the flag is set, the identifier is not
MarkUploaded_flagonly(list, idx, rid) ==
  [list EXCEPT ![idx].isUploaded = TRUE]

\* localRecordings[idx].id = recordingId; localRecordings[idx].isUploaded = true
MarkUploaded(list, idx, rid) ==
  [list EXCEPT ![idx].id = rid, ![idx].isUploaded = TRUE]

\* AsyncStorage.getItem + JSON.parse inside getLocalRecordings: [] when it throws
GetLocalRecordings(readOk) == IF readOk THEN storage ELSE <<>>

\* ------------------------------------------------------------------ recorder (later revision)
\* RECORD pressed: the synchronous part of startRecording, up to its first await
startRecording ==
  /\ ~galleryOpen
  /\ ~isSaving /\ ~isRecording
  /\ device
  /\ nextLocal <= MaxSessions
  /\ isRecording' = TRUE
  /\ frameCount' = 0
  /\ barcodeCount' = 0
  /\ barcodeScans' = <<>>
  /\ recordingTime' = 0
  /\ recordingStartTime' = now
  /\ videoUriRef' = Null
  /\ currentRecording' = nextLocal
  /\ nextLocal' = nextLocal + 1
  /\ timerRef' = SecHandle
  /\ frameTimerRef' = FrameHandle
  /\ timers' = timers @@ (SecHandle :> [t0 |-> now, n |-> 0])
  /\ frameTimers' = frameTimers \cup {FrameHandle}
  /\ nextHandle' = nextHandle + 2
  /\ \E threw \in BOOLEAN :
       IF hasCamera
       THEN IF threw
            THEN /\ videoRecordingActive' = FALSE
                 /\ cameraPending' = cameraPending
            ELSE /\ videoRecordingActive' = TRUE
                 /\ cameraPending' = cameraPending \cup {nextLocal}
       ELSE /\ ~threw
            /\ UNCHANGED <<videoRecordingActive, cameraPending>>
  /\ audioPrep' = audioPrep \cup {nextLocal}
  /\ UNCHANGED <<now, envVars, isSaving, audioRecorder, stop, storage, files, remoteDb,
                 proms, galVars, earlyVars>>

\* prepareToRecordAsync settles; on success audioRecorder.record()
startRecording_audio ==
  \E s \in audioPrep, ok \in BOOLEAN :
    /\ audioPrep' = audioPrep \ {s}
    /\ IF ok
       THEN /\ audioRecorder' = [recording |-> TRUE, uri |-> s]
            /\ files' = files \cup {<<"audio", s>>}
       ELSE UNCHANGED <<audioRecorder, files>>
    /\ UNCHANGED <<now, envVars, recVars, timVars, cameraPending, nextLocal, stop, storage,
                   remoteDb, proms, galVars, earlyVars>>

\* the recordAsync promise of session s settles: .then (with or without a uri) or .catch
recordAsync_settle ==
  \E s \in cameraPending, result \in {"uri", "nouri", "error"} :
    /\ cameraPending' = cameraPending \ {s}
    /\ IF result = "uri"
       THEN /\ videoUriRef' = s
            /\ files' = files \cup {<<"video", s>>}
       ELSE UNCHANGED <<videoUriRef, files>>
    /\ videoRecordingActive' = FALSE
    /\ UNCHANGED <<now, envVars, isRecording, isSaving, currentRecording, recordingTime,
                   frameCount, barcodeScans, barcodeCount, recordingStartTime, timVars,
                   audioPrep, audioRecorder, nextLocal, stop, storage, remoteDb, proms,
                   galVars, earlyVars>>

\* a live 1 Hz interval fires: setRecordingTime(p => p + 1); never before it is due
secondTick ==
  \E h \in DOMAIN timers :
    /\ (timers[h].n + 1) * SubSec <= now - timers[h].t0
    /\ timers' = [timers EXCEPT ![h].n = @ + 1]
    /\ recordingTime' = recordingTime + 1
    /\ UNCHANGED <<now, envVars, isRecording, isSaving, currentRecording, frameCount,
                   barcodeScans, barcodeCount, videoRecordingActive, videoUriRef,
                   recordingStartTime, timerRef, frameTimerRef, frameTimers, nextHandle,
                   capVars, nextLocal, stop, storage, files, remoteDb, proms, galVars,
                   earlyVars>>

\* a live frame interval fires
frameTick ==
  \E h \in frameTimers :
    /\ frameCount < MaxFrame
    /\ frameCount' = frameCount + 1
    /\ UNCHANGED <<now, envVars, isRecording, isSaving, currentRecording, recordingTime,
                   barcodeScans, barcodeCount, videoRecordingActive, videoUriRef,
                   recordingStartTime, timVars, capVars, nextLocal, stop, storage, files,
                   remoteDb, proms, galVars, earlyVars>>

NewScan(bc) ==
  [barcode_data |-> bc, video_timestamp |-> now - recordingStartTime,
   frame_code |-> frameCount]

\* mutant: the scan is accepted whenever there is a current recording
handleBarcode_anytime ==
  \E bc \in Payloads :
    /\ ~galleryOpen
    /\ currentRecording # Null
    /\ Len(barcodeScans) < MaxScans
    /\ barcodeScans' = Append(barcodeScans, NewScan(bc))
    /\ barcodeCount' = barcodeCount + 1
    /\ UNCHANGED <<now, envVars, isRecording, isSaving, currentRecording, recordingTime,
                   frameCount, videoRecordingActive, videoUriRef, recordingStartTime,
                   timVars, capVars, nextLocal, stop, storage, files, remoteDb, proms,
                   galVars, earlyVars>>

\* mutant: a payload already in the list is counted but not appended again
handleBarcode_dedup ==
  \E bc \in Payloads :
    /\ ~galleryOpen
    /\ isRecording
    /\ Len(barcodeScans) < MaxScans
    /\ barcodeScans' =
         IF \E i \in 1..Len(barcodeScans) : barcodeScans[i].barcode_data = bc
         THEN barcodeScans
         ELSE Append(barcodeScans, NewScan(bc))
    /\ barcodeCount' = barcodeCount + 1
    /\ UNCHANGED <<now, envVars, isRecording, isSaving, currentRecording, recordingTime,
                   frameCount, videoRecordingActive, videoUriRef, recordingStartTime,
                   timVars, capVars, nextLocal, stop, storage, files, remoteDb, proms,
                   galVars, earlyVars>>

\* a badge is submitted
handleBarcode ==
  \E bc \in Payloads :
    /\ ~galleryOpen
    /\ isRecording
    /\ Len(barcodeScans) < MaxScans
    /\ barcodeScans' = Append(barcodeScans, NewScan(bc))
    /\ barcodeCount' = barcodeCount + 1
    /\ UNCHANGED <<now, envVars, isRecording, isSaving, currentRecording, recordingTime,
                   frameCount, videoRecordingActive, videoUriRef, recordingStartTime,
                   timVars, capVars, nextLocal, stop, storage, files, remoteDb, proms,
                   galVars, earlyVars>>

\* the state reset at the end of stopRecording's try block
ResetSession ==
  /\ currentRecording' = Null
  /\ recordingTime' = 0
  /\ frameCount' = 0
  /\ barcodeCount' = 0
  /\ barcodeScans' = <<>>
  /\ videoUriRef' = Null

\* the finally block of stopRecording
StopFinally ==
  /\ isSaving' = FALSE
  /\ stop' = StopIdle

\* mutant: the intervals are not cleared
stopRecording_noclear ==
  /\ ~galleryOpen
  /\ ~isSaving /\ isRecording
  /\ currentRecording # Null
  /\ isSaving' = TRUE
  /\ isRecording' = FALSE
  /\ UNCHANGED <<timers, frameTimers>>
  /\ LET cl == [cr |-> currentRecording, vra |-> videoRecordingActive,
                scans |-> barcodeScans, rt |-> recordingTime, bc |-> barcodeCount,
                au |-> autoUpload, on |-> isOnline]
     IN \E threw \in BOOLEAN :
          IF hasCamera /\ videoRecordingActive
          THEN IF threw
               THEN /\ stop' = [StopIdle EXCEPT !.pc = "audio", !.cl = cl]
                    /\ videoRecordingActive' = FALSE
               ELSE /\ stop' = [StopIdle EXCEPT !.pc = "poll", !.cl = cl]
                    /\ UNCHANGED videoRecordingActive
          ELSE /\ ~threw
               /\ stop' = [StopIdle EXCEPT !.pc = "audio", !.cl = cl]
               /\ videoRecordingActive' = FALSE
  /\ UNCHANGED <<now, envVars, currentRecording, recordingTime, frameCount, barcodeScans,
                 barcodeCount, videoUriRef, recordingStartTime, timerRef, frameTimerRef,
                 nextHandle, capVars, nextLocal, storage, files, remoteDb, proms, galVars,
                 earlyVars>>

\* STOP pressed: the synchronous part of stopRecording, up to its first await
stopRecording ==
  /\ ~galleryOpen
  /\ ~isSaving /\ isRecording
  /\ currentRecording # Null
  /\ isSaving' = TRUE
  /\ isRecording' = FALSE
  /\ timers' = ClearInterval(timers, timerRef)
  /\ frameTimers' = frameTimers \ {frameTimerRef}
  /\ LET cl == [cr |-> currentRecording, vra |-> videoRecordingActive,
                scans |-> barcodeScans, rt |-> recordingTime, bc |-> barcodeCount,
                au |-> autoUpload, on |-> isOnline]
     IN \E threw \in BOOLEAN :
          IF hasCamera /\ videoRecordingActive
          THEN IF threw
               THEN /\ stop' = [StopIdle EXCEPT !.pc = "audio", !.cl = cl]
                    /\ videoRecordingActive' = FALSE
               ELSE /\ stop' = [StopIdle EXCEPT !.pc = "poll", !.cl = cl]
                    /\ UNCHANGED videoRecordingActive
          ELSE /\ ~threw
               /\ stop' = [StopIdle EXCEPT !.pc = "audio", !.cl = cl]
               /\ videoRecordingActive' = FALSE
  /\ UNCHANGED <<now, envVars, currentRecording, recordingTime, frameCount, barcodeScans,
                 barcodeCount, videoUriRef, recordingStartTime, timerRef, frameTimerRef,
                 nextHandle, capVars, nextLocal, storage, files, remoteDb, proms, galVars,
                 earlyVars>>

\* mutant: the loop has no iteration limit; it ends only when the uri has arrived
stopRecording_poll_unbounded ==
  /\ stop.pc = "poll"
  /\ IF videoUriRef # Null
     THEN /\ stop' = [stop EXCEPT !.pc = "audio", !.i = @ + 1, !.videoUri = videoUriRef]
          /\ videoRecordingActive' = FALSE
     ELSE /\ stop' = [stop EXCEPT !.i = @ + 1]
          /\ UNCHANGED videoRecordingActive
  /\ UNCHANGED <<now, envVars, isRecording, isSaving, currentRecording, recordingTime,
                 frameCount, barcodeScans, barcodeCount, videoUriRef, recordingStartTime,
                 timVars, capVars, nextLocal, storage, files, remoteDb, proms, galVars,
                 earlyVars>>

\* one turn of the poll loop: the 100 ms wait ends, videoUriRef.current is looked at
stopRecording_poll ==
  /\ stop.pc = "poll"
  /\ IF videoUriRef # Null \/ stop.i + 1 >= MaxPolls
     THEN /\ stop' = [stop EXCEPT !.pc = "audio", !.i = @ + 1, !.videoUri = videoUriRef]
          /\ videoRecordingActive' = FALSE
     ELSE /\ stop' = [stop EXCEPT !.i = @ + 1]
          /\ UNCHANGED videoRecordingActive
  /\ UNCHANGED <<now, envVars, isRecording, isSaving, currentRecording, recordingTime,
                 frameCount, barcodeScans, barcodeCount, videoUriRef, recordingStartTime,
                 timVars, capVars, nextLocal, storage, files, remoteDb, proms, galVars,
                 earlyVars>>

LocalRecording(cl, videoUri, audioUri) ==
  [id |-> Null, localId |-> cl.cr, videoPath |-> videoUri, audioPath |-> audioUri,
   barcodeScansList |-> cl.scans, duration |-> cl.rt, createdAt |-> now,
   isUploaded |-> FALSE]

\* mutant: without any media handle the call gives up before it writes the record
stopRecording_audio_nomedia ==
  /\ stop.pc = "audio"
  /\ \E threw \in BOOLEAN, readOk \in BOOLEAN :
       LET audioUri == IF threw THEN Null ELSE audioRecorder.uri
       IN /\ audioRecorder' = IF threw THEN audioRecorder
                              ELSE [audioRecorder EXCEPT !.recording = FALSE]
          /\ stop' = IF stop.videoUri = Null /\ audioUri = Null
                     THEN StopIdle
                     ELSE [stop EXCEPT !.pc = "write",
                             !.rec = LocalRecording(stop.cl, stop.videoUri, audioUri),
                             !.existing = GetLocalRecordings(readOk)]
          /\ isSaving' = (stop.videoUri # Null \/ audioUri # Null)
  /\ UNCHANGED <<now, envVars, isRecording, currentRecording, recordingTime, frameCount,
                 barcodeScans, barcodeCount, videoRecordingActive, videoUriRef,
                 recordingStartTime, timVars, cameraPending, audioPrep, nextLocal,
                 storage, files, remoteDb, proms, galVars, earlyVars>>

\* audioRecorder.stop() settles; the record is assembled and the stored list is read
stopRecording_audio ==
  /\ stop.pc = "audio"
  /\ \E threw \in BOOLEAN, readOk \in BOOLEAN :
       LET audioUri == IF threw THEN Null ELSE audioRecorder.uri
       IN /\ audioRecorder' = IF threw THEN audioRecorder
                              ELSE [audioRecorder EXCEPT !.recording = FALSE]
          /\ stop' = [stop EXCEPT !.pc = "write",
                                  !.rec = LocalRecording(stop.cl, stop.videoUri, audioUri),
                                  !.existing = GetLocalRecordings(readOk)]
  /\ UNCHANGED <<now, envVars, recVars, timVars, cameraPending, audioPrep, nextLocal,
                 storage, files, remoteDb, proms, galVars, earlyVars>>

AutoUploadWanted(cl, recording) ==
  cl.au /\ cl.on /\ (recording.videoPath # Null \/ recording.audioPath # Null)

\* mutant: the auto-upload is started first; the record is written only when no
\* auto-upload is wanted
stopRecording_write_uploadfirst ==
  /\ stop.pc = "write"
  /\ \E ok \in BOOLEAN :
       IF AutoUploadWanted(stop.cl, stop.rec)
       THEN /\ ok
            /\ Len(proms) < MaxProms
            /\ proms' = Append(proms, NewProm("rec", stop.rec))
            /\ stop' = [stop EXCEPT !.pc = "upload"]
            /\ UNCHANGED <<storage, isSaving, currentRecording, recordingTime, frameCount,
                           barcodeCount, barcodeScans, videoUriRef>>
       ELSE /\ StopFinally
            /\ UNCHANGED proms
            /\ IF ok
               THEN /\ storage' = <<stop.rec>> \o stop.existing
                    /\ ResetSession
               ELSE UNCHANGED <<storage, currentRecording, recordingTime, frameCount,
                                barcodeCount, barcodeScans, videoUriRef>>
  /\ UNCHANGED <<now, envVars, isRecording, videoRecordingActive, recordingStartTime,
                 timVars, capVars, nextLocal, files, remoteDb, galVars, earlyVars>>

\* AsyncStorage.setItem of the list with the new record at its head settles; then either
\* the auto-upload is started or the call ends
stopRecording_write ==
  /\ stop.pc = "write"
  /\ \E ok \in BOOLEAN :
       IF ~ok
       THEN /\ StopFinally
            /\ UNCHANGED <<storage, proms, currentRecording, recordingTime, frameCount,
                           barcodeCount, barcodeScans, videoUriRef>>
       ELSE /\ storage' = <<stop.rec>> \o stop.existing
            /\ IF AutoUploadWanted(stop.cl, stop.rec)
               THEN /\ Len(proms) < MaxProms
                    /\ proms' = Append(proms, NewProm("rec", stop.rec))
                    /\ stop' = [stop EXCEPT !.pc = "upload"]
                    /\ UNCHANGED <<isSaving, currentRecording, recordingTime, frameCount,
                                   barcodeCount, barcodeScans, videoUriRef>>
               ELSE /\ ResetSession
                    /\ StopFinally
                    /\ UNCHANGED proms
  /\ UNCHANGED <<now, envVars, isRecording, videoRecordingActive, recordingStartTime,
                 timVars, capVars, nextLocal, files, remoteDb, galVars, earlyVars>>

\* ------------------------------------------------------------------ uploadRecordingToCloud
\* the promotion started by stopRecording is the one promotion of path "rec" still running
RecProm(p) == /\ p \in 1..Len(proms)
              /\ proms[p].path = "rec"
              /\ proms[p].outcome = "running"

\* uploadRecordingToCloud returned or threw: stopRecording's continuation and finally
RecPromEnds ==
  /\ ResetSession
  /\ StopFinally

RecFrame == UNCHANGED <<now, envVars, isRecording, videoRecordingActive, recordingStartTime,
                        timVars, capVars, nextLocal, galVars, earlyVars>>
RecRuns  == UNCHANGED <<isSaving, stop, currentRecording, recordingTime, frameCount,
                        barcodeCount, barcodeScans, videoUriRef>>

\* mutant: a failed create request is swallowed and the promotion goes on to step 6
uploadRecordingToCloud_create_swallowed ==
  \E p \in 1..Len(proms), ok \in BOOLEAN :
    /\ RecProm(p) /\ proms[p].pc = "create"
    /\ IF ok
       THEN /\ remoteDb' = RemoteCreate(remoteDb, proms[p].rec.localId)
            /\ proms' = [proms EXCEPT ![p].rid = Rid(Len(remoteDb) + 1),
                                      ![p].log = Append(@, Req("create", TRUE)),
                                      ![p].pc = AfterCreate(proms[p].rec)]
       ELSE /\ proms' = [proms EXCEPT ![p].log = Append(@, Req("create", FALSE)),
                                      ![p].pc = "read"]
            /\ UNCHANGED remoteDb
    /\ RecRuns
    /\ UNCHANGED <<storage, files>>
    /\ RecFrame

uploadRecordingToCloud_create ==
  \E p \in 1..Len(proms), ok \in BOOLEAN :
    /\ RecProm(p) /\ proms[p].pc = "create"
    /\ IF ok
       THEN /\ remoteDb' = RemoteCreate(remoteDb, proms[p].rec.localId)
            /\ proms' = [proms EXCEPT ![p].rid = Rid(Len(remoteDb) + 1),
                                      ![p].log = Append(@, Req("create", TRUE)),
                                      ![p].pc = AfterCreate(proms[p].rec)]
            /\ RecRuns
       ELSE /\ proms' = [proms EXCEPT ![p].log = Append(@, Req("create", FALSE)),
                                      ![p].pc = "done", ![p].outcome = "raised"]
            /\ RecPromEnds
            /\ UNCHANGED remoteDb
    /\ UNCHANGED <<storage, files>>
    /\ RecFrame

\* getInfoAsync, then uploadAsync of the video; any failure is logged and swallowed
uploadRecordingToCloud_video ==
  \E p \in 1..Len(proms), ok \in BOOLEAN :
    /\ RecProm(p) /\ proms[p].pc = "video"
    /\ IF <<"video", proms[p].rec.videoPath>> \in files
       THEN /\ proms' = [proms EXCEPT
                       ![p].log = Append(@, Req("video", ok /\ Reachable(proms[p].rid))),
                       ![p].pc = AfterVideo(proms[p].rec)]
            /\ IF ok /\ Reachable(proms[p].rid)
               THEN remoteDb' = RemoteVideo(remoteDb, proms[p].rid)
               ELSE UNCHANGED remoteDb
       ELSE /\ ok
            /\ proms' = [proms EXCEPT ![p].pc = AfterVideo(proms[p].rec)]
            /\ UNCHANGED remoteDb
    /\ UNCHANGED <<storage, files>>
    /\ RecRuns /\ RecFrame

uploadRecordingToCloud_audio ==
  \E p \in 1..Len(proms), ok \in BOOLEAN :
    /\ RecProm(p) /\ proms[p].pc = "audio"
    /\ IF <<"audio", proms[p].rec.audioPath>> \in files
       THEN /\ proms' = [proms EXCEPT
                       ![p].log = Append(@, Req("audio", ok /\ Reachable(proms[p].rid))),
                       ![p].pc = AfterAudio(proms[p].rec)]
            /\ IF ok /\ Reachable(proms[p].rid)
               THEN remoteDb' = RemoteAudio(remoteDb, proms[p].rid)
               ELSE UNCHANGED remoteDb
       ELSE /\ ok
            /\ proms' = [proms EXCEPT ![p].pc = AfterAudio(proms[p].rec)]
            /\ UNCHANGED remoteDb
    /\ UNCHANGED <<storage, files>>
    /\ RecRuns /\ RecFrame

\* mutant: the loop has no try/catch; a failed submission ends the promotion
uploadRecordingToCloud_scan_raises ==
  \E p \in 1..Len(proms), ok \in BOOLEAN :
    /\ RecProm(p) /\ proms[p].pc = "scan"
    /\ LET scans == proms[p].rec.barcodeScansList
           k == proms[p].k
       IN IF ok /\ Reachable(proms[p].rid)
          THEN /\ proms' = [proms EXCEPT
                       ![p].log = Append(@, Req("scan", TRUE)),
                       ![p].k = k + 1,
                       ![p].pc = IF k < Len(scans) THEN "scan" ELSE "complete"]
               /\ remoteDb' = RemoteScan(remoteDb, proms[p].rid, scans[k])
               /\ RecRuns
          ELSE /\ proms' = [proms EXCEPT ![p].log = Append(@, Req("scan", FALSE)),
                                         ![p].pc = "done", ![p].outcome = "raised"]
               /\ RecPromEnds
               /\ UNCHANGED remoteDb
    /\ UNCHANGED <<storage, files>>
    /\ RecFrame

\* one badge scan is posted; a failure is swallowed
uploadRecordingToCloud_scan ==
  \E p \in 1..Len(proms), ok \in BOOLEAN :
    /\ RecProm(p) /\ proms[p].pc = "scan"
    /\ LET scans == proms[p].rec.barcodeScansList
           k == proms[p].k
       IN /\ proms' = [proms EXCEPT
                       ![p].log = Append(@, Req("scan", ok /\ Reachable(proms[p].rid))),
                       ![p].k = k + 1,
                       ![p].pc = IF k < Len(scans) THEN "scan" ELSE "complete"]
          /\ IF ok /\ Reachable(proms[p].rid)
             THEN remoteDb' = RemoteScan(remoteDb, proms[p].rid, scans[k])
             ELSE UNCHANGED remoteDb
    /\ UNCHANGED <<storage, files>>
    /\ RecRuns /\ RecFrame

\* PUT .../complete; it is awaited outside any try of uploadRecordingToCloud
uploadRecordingToCloud_complete ==
  \E p \in 1..Len(proms), ok \in BOOLEAN :
    /\ RecProm(p) /\ proms[p].pc = "complete"
    /\ IF ok /\ Reachable(proms[p].rid)
       THEN /\ remoteDb' = RemoteComplete(remoteDb, proms[p].rid)
            /\ proms' = [proms EXCEPT ![p].log = Append(@, Req("complete", TRUE)),
                                      ![p].pc = "read"]
            /\ RecRuns
       ELSE /\ proms' = [proms EXCEPT ![p].log = Append(@, Req("complete", FALSE)),
                                      ![p].pc = "done", ![p].outcome = "raised"]
            /\ RecPromEnds
            /\ UNCHANGED remoteDb
    /\ UNCHANGED <<storage, files>>
    /\ RecFrame

\* getLocalRecordings settles; the entry is looked up and, when found, changed in the copy
uploadRecordingToCloud_read ==
  \E p \in 1..Len(proms), readOk \in BOOLEAN :
    /\ RecProm(p) /\ proms[p].pc = "read"
    /\ LET list == GetLocalRecordings(readOk)
           idx == FindIndex(list, proms[p].rec.localId)
       IN IF idx # 0
          THEN /\ proms' = [proms EXCEPT ![p].list = MarkUploaded(list, idx, proms[p].rid),
                                         ![p].pc = "write"]
               /\ RecRuns
          ELSE /\ proms' = [proms EXCEPT ![p].pc = "done", ![p].outcome = "ok"]
               /\ RecPromEnds
    /\ UNCHANGED <<storage, files, remoteDb>>
    /\ RecFrame

\* AsyncStorage.setItem of the changed copy settles
uploadRecordingToCloud_write ==
  \E p \in 1..Len(proms), ok \in BOOLEAN :
    /\ RecProm(p) /\ proms[p].pc = "write"
    /\ IF ok
       THEN /\ storage' = proms[p].list
            /\ proms' = [proms EXCEPT ![p].log = Append(@, Req("setItem", TRUE)),
                                      ![p].list = <<>>,
                                      ![p].pc = "done", ![p].outcome = "ok"]
       ELSE /\ UNCHANGED storage
            /\ proms' = [proms EXCEPT ![p].log = Append(@, Req("setItem", FALSE)),
                                      ![p].list = <<>>,
                                      ![p].pc = "done", ![p].outcome = "raised"]
    /\ RecPromEnds
    /\ UNCHANGED <<files, remoteDb>>
    /\ RecFrame

\* ------------------------------------------------------------------ gallery (part_005)
LocalItem(recording) == [source |-> "local", rec |-> recording]
CloudItem(index)     == [source |-> "cloud", id |-> Rid(index),
                         start_time |-> remoteDb[index].start_time]

\* the date a view entry is sorted by
DateOf(item) == IF item.source = "local" THEN item.rec.createdAt ELSE item.start_time
\* the identifier handleDelete and renderItem use for an entry
ItemId(item) == IF item.source = "local" THEN item.rec.localId ELSE item.id

\* combined.sort((a, b) => dateB - dateA): newest first, equal dates keep their order
RECURSIVE InsertByDate(_, _)
InsertByDate(item, sorted) ==
  IF sorted = <<>> THEN <<item>>
  ELSE IF DateOf(item) > DateOf(Head(sorted))
       THEN <<item>> \o sorted
       ELSE <<Head(sorted)>> \o InsertByDate(item, Tail(sorted))
RECURSIVE SortByDate(_)
SortByDate(items) ==
  IF items = <<>> THEN <<>>
  ELSE InsertByDate(items[Len(items)], SortByDate(SubSeq(items, 1, Len(items) - 1)))

\* local recordings that are not uploaded, as view entries
RECURSIVE NotUploaded(_)
NotUploaded(list) ==
  IF list = <<>> THEN <<>>
  ELSE IF ~Head(list).isUploaded
       THEN <<LocalItem(Head(list))>> \o NotUploaded(Tail(list))
       ELSE NotUploaded(Tail(list))

\* GET /api/recordings: the recordings the service holds
RECURSIVE CloudList(_)
CloudList(n) ==
  IF n = 0 THEN <<>>
  ELSE IF remoteDb[n].deleted THEN CloudList(n - 1)
       ELSE CloudList(n - 1) \o <<CloudItem(n)>>

\* mutant: the combined list is shown as it was put together, without the sort
Combined_unsorted(local, cloud) == NotUploaded(local) \o cloud

Combined(local, cloud) == SortByDate(NotUploaded(local) \o cloud)

\* prev.filter(r => r.source === 'local' ? r.localId !== itemId : r.id !== itemId)
RECURSIVE DropItem(_, _)
DropItem(items, itemId) ==
  IF items = <<>> THEN <<>>
  ELSE IF ItemId(Head(items)) = itemId THEN DropItem(Tail(items), itemId)
       ELSE <<Head(items)>> \o DropItem(Tail(items), itemId)

NewFetch  == [pc |-> "local", local |-> <<>>]
DoneFetch == [pc |-> "done", local |-> <<>>]
Running(procs, pc) == {k \in 1..Len(procs) : procs[k].pc = pc}

\* the Gallery button of the recorder: the gallery mounts, loads the device identifier
\* and calls fetchRecordings
openGallery ==
  /\ device /\ ~galleryOpen
  /\ galleryOpen' = TRUE
  /\ fetches' = Append(fetches, NewFetch)
  /\ UNCHANGED <<now, envVars, recVars, timVars, capVars, nextLocal, stop, storage, files,
                 remoteDb, proms, recordings, uploadingId, deletingId, deletes, earlyVars>>

\* the refresh button or pull-to-refresh: fetchRecordings is called
refresh ==
  /\ galleryOpen
  /\ Len(fetches) < MaxFetches
  /\ fetches' = Append(fetches, NewFetch)
  /\ UNCHANGED <<now, envVars, recVars, timVars, capVars, nextLocal, stop, storage, files,
                 remoteDb, proms, galleryOpen, recordings, uploadingId, deletingId,
                 deletes, earlyVars>>

\* mutant: getLocalRecordings has no catch; a failed read ends fetchRecordings
fetchRecordings_local_raises ==
  \E f \in Running(fetches, "local"), readOk \in BOOLEAN :
    /\ fetches' = [fetches EXCEPT ![f] = IF readOk
                                         THEN [pc |-> "cloud", local |-> storage]
                                         ELSE DoneFetch]
    /\ UNCHANGED <<now, envVars, recVars, timVars, capVars, nextLocal, stop, storage, files,
                   remoteDb, proms, galleryOpen, recordings, uploadingId, deletingId,
                   deletes, earlyVars>>

\* fetchRecordings: getLocalRecordings settles
fetchRecordings_local ==
  \E f \in Running(fetches, "local"), readOk \in BOOLEAN :
    /\ fetches' = [fetches EXCEPT ![f].pc = "cloud", ![f].local = GetLocalRecordings(readOk)]
    /\ UNCHANGED <<now, envVars, recVars, timVars, capVars, nextLocal, stop, storage, files,
                   remoteDb, proms, galleryOpen, recordings, uploadingId, deletingId,
                   deletes, earlyVars>>

\* fetchRecordings: the remote listing settles; the combined list is sorted and shown
fetchRecordings_cloud ==
  \E f \in Running(fetches, "cloud"), ok \in BOOLEAN :
    /\ recordings' = Combined(fetches[f].local,
                              IF ok THEN CloudList(Len(remoteDb)) ELSE <<>>)
    /\ fetches' = [fetches EXCEPT ![f] = DoneFetch]
    /\ UNCHANGED <<now, envVars, recVars, timVars, capVars, nextLocal, stop, storage, files,
                   remoteDb, proms, galleryOpen, uploadingId, deletingId, deletes,
                   earlyVars>>

\* ------------------------------------------------------------------ uploadToCloud
GalProm(p) == /\ p \in 1..Len(proms)
              /\ proms[p].path = "gal"
              /\ proms[p].outcome = "running"

GalFrame == UNCHANGED <<now, envVars, recVars, timVars, capVars, nextLocal, stop,
                        galleryOpen, deletingId, deletes, earlyVars>>
GalRuns  == UNCHANGED <<recordings, uploadingId, fetches>>

\* the catch and finally blocks of uploadToCloud
GalPromFails ==
  /\ uploadingId' = Null
  /\ UNCHANGED <<recordings, fetches>>

\* the Upload button of a local entry: disabled only while uploadingId is that entry
uploadToCloud ==
  \E k \in 1..Len(recordings) :
    /\ galleryOpen
    /\ recordings[k].source = "local"
    /\ uploadingId # recordings[k].rec.localId
    /\ Len(proms) < MaxProms
    /\ uploadingId' = recordings[k].rec.localId
    /\ proms' = Append(proms, NewProm("gal", recordings[k].rec))
    /\ UNCHANGED <<now, envVars, recVars, timVars, capVars, nextLocal, stop, storage, files,
                   remoteDb, galleryOpen, recordings, deletingId, fetches, deletes,
                   earlyVars>>

uploadToCloud_create ==
  \E p \in 1..Len(proms), ok \in BOOLEAN :
    /\ GalProm(p) /\ proms[p].pc = "create"
    /\ IF ok
       THEN /\ remoteDb' = RemoteCreate(remoteDb, proms[p].rec.localId)
            /\ proms' = [proms EXCEPT ![p].rid = Rid(Len(remoteDb) + 1),
                                      ![p].log = Append(@, Req("create", TRUE)),
                                      ![p].pc = AfterCreate(proms[p].rec)]
            /\ GalRuns
       ELSE /\ proms' = [proms EXCEPT ![p].log = Append(@, Req("create", FALSE)),
                                      ![p].pc = "done", ![p].outcome = "failed"]
            /\ GalPromFails
            /\ UNCHANGED remoteDb
    /\ UNCHANGED <<storage, files>>
    /\ GalFrame

\* getInfoAsync, then uploadAsync of the video; a throw or a status outside 2xx
\* leaves the try block
uploadToCloud_video ==
  \E p \in 1..Len(proms), ok \in BOOLEAN :
    /\ GalProm(p) /\ proms[p].pc = "video"
    /\ IF <<"video", proms[p].rec.videoPath>> \in files
       THEN IF ok /\ Reachable(proms[p].rid)
            THEN /\ remoteDb' = RemoteVideo(remoteDb, proms[p].rid)
                 /\ proms' = [proms EXCEPT ![p].log = Append(@, Req("video", TRUE)),
                                           ![p].pc = AfterVideo(proms[p].rec)]
                 /\ GalRuns
            ELSE /\ proms' = [proms EXCEPT ![p].log = Append(@, Req("video", FALSE)),
                                           ![p].pc = "done", ![p].outcome = "failed"]
                 /\ GalPromFails
                 /\ UNCHANGED remoteDb
       ELSE /\ ok
            /\ proms' = [proms EXCEPT ![p].pc = AfterVideo(proms[p].rec)]
            /\ GalRuns
            /\ UNCHANGED remoteDb
    /\ UNCHANGED <<storage, files>>
    /\ GalFrame

uploadToCloud_audio ==
  \E p \in 1..Len(proms), ok \in BOOLEAN :
    /\ GalProm(p) /\ proms[p].pc = "audio"
    /\ IF <<"audio", proms[p].rec.audioPath>> \in files
       THEN IF ok /\ Reachable(proms[p].rid)
            THEN /\ remoteDb' = RemoteAudio(remoteDb, proms[p].rid)
                 /\ proms' = [proms EXCEPT ![p].log = Append(@, Req("audio", TRUE)),
                                           ![p].pc = AfterAudio(proms[p].rec)]
                 /\ GalRuns
            ELSE /\ proms' = [proms EXCEPT ![p].log = Append(@, Req("audio", FALSE)),
                                           ![p].pc = "done", ![p].outcome = "failed"]
                 /\ GalPromFails
                 /\ UNCHANGED remoteDb
       ELSE /\ ok
            /\ proms' = [proms EXCEPT ![p].pc = AfterAudio(proms[p].rec)]
            /\ GalRuns
            /\ UNCHANGED remoteDb
    /\ UNCHANGED <<storage, files>>
    /\ GalFrame

uploadToCloud_scan ==
  \E p \in 1..Len(proms), ok \in BOOLEAN :
    /\ GalProm(p) /\ proms[p].pc = "scan"
    /\ LET scans == proms[p].rec.barcodeScansList
           k == proms[p].k
       IN /\ proms' = [proms EXCEPT
                       ![p].log = Append(@, Req("scan", ok /\ Reachable(proms[p].rid))),
                       ![p].k = k + 1,
                       ![p].pc = IF k < Len(scans) THEN "scan" ELSE "complete"]
          /\ IF ok /\ Reachable(proms[p].rid)
             THEN remoteDb' = RemoteScan(remoteDb, proms[p].rid, scans[k])
             ELSE UNCHANGED remoteDb
    /\ UNCHANGED <<storage, files>>
    /\ GalRuns /\ GalFrame

\* mutant: a failed complete request is swallowed and the promotion goes on to step 6
uploadToCloud_complete_swallowed ==
  \E p \in 1..Len(proms), ok \in BOOLEAN :
    /\ GalProm(p) /\ proms[p].pc = "complete"
    /\ IF ok /\ Reachable(proms[p].rid)
       THEN /\ remoteDb' = RemoteComplete(remoteDb, proms[p].rid)
            /\ proms' = [proms EXCEPT ![p].log = Append(@, Req("complete", TRUE)),
                                      ![p].pc = "read"]
       ELSE /\ proms' = [proms EXCEPT ![p].log = Append(@, Req("complete", FALSE)),
                                      ![p].pc = "read"]
            /\ UNCHANGED remoteDb
    /\ GalRuns
    /\ UNCHANGED <<storage, files>>
    /\ GalFrame

uploadToCloud_complete ==
  \E p \in 1..Len(proms), ok \in BOOLEAN :
    /\ GalProm(p) /\ proms[p].pc = "complete"
    /\ IF ok /\ Reachable(proms[p].rid)
       THEN /\ remoteDb' = RemoteComplete(remoteDb, proms[p].rid)
            /\ proms' = [proms EXCEPT ![p].log = Append(@, Req("complete", TRUE)),
                                      ![p].pc = "read"]
            /\ GalRuns
       ELSE /\ proms' = [proms EXCEPT ![p].log = Append(@, Req("complete", FALSE)),
                                      ![p].pc = "done", ![p].outcome = "failed"]
            /\ GalPromFails
            /\ UNCHANGED remoteDb
    /\ UNCHANGED <<storage, files>>
    /\ GalFrame

\* 'Upload Complete': fetchRecordings() is called, then the finally block
GalPromSucceeds ==
  /\ fetches' = Append(fetches, NewFetch)
  /\ uploadingId' = Null
  /\ UNCHANGED recordings

uploadToCloud_read ==
  \E p \in 1..Len(proms), readOk \in BOOLEAN :
    /\ GalProm(p) /\ proms[p].pc = "read"
    /\ LET list == GetLocalRecordings(readOk)
           idx == FindIndex(list, proms[p].rec.localId)
       IN IF idx # 0
          THEN /\ proms' = [proms EXCEPT ![p].list = MarkUploaded(list, idx, proms[p].rid),
                                         ![p].pc = "write"]
               /\ GalRuns
          ELSE /\ proms' = [proms EXCEPT ![p].pc = "done", ![p].outcome = "ok"]
               /\ GalPromSucceeds
    /\ UNCHANGED <<storage, files, remoteDb>>
    /\ GalFrame

uploadToCloud_write ==
  \E p \in 1..Len(proms), ok \in BOOLEAN :
    /\ GalProm(p) /\ proms[p].pc = "write"
    /\ IF ok
       THEN /\ storage' = proms[p].list
            /\ proms' = [proms EXCEPT ![p].log = Append(@, Req("setItem", TRUE)),
                                      ![p].list = <<>>,
                                      ![p].pc = "done", ![p].outcome = "ok"]
            /\ GalPromSucceeds
       ELSE /\ UNCHANGED storage
            /\ proms' = [proms EXCEPT ![p].log = Append(@, Req("setItem", FALSE)),
                                      ![p].list = <<>>,
                                      ![p].pc = "done", ![p].outcome = "failed"]
            /\ GalPromFails
    /\ UNCHANGED <<files, remoteDb>>
    /\ GalFrame

\* ------------------------------------------------------------------ handleDelete
NewDelete(item) == [item |-> item, list |-> <<>>,
                    pc |-> IF item.source = "local" THEN "files" ELSE "cloud"]

DoneDelete(d, ok) == [item |-> d.item, list |-> <<>>,
                      pc |-> IF ok THEN "done" ELSE "failed"]

DelFrame == UNCHANGED <<now, envVars, recVars, timVars, capVars, nextLocal, stop, proms,
                        galleryOpen, uploadingId, fetches, earlyVars>>

\* the trash button of an entry and 'Delete' in the confirmation
handleDelete ==
  \E k \in 1..Len(recordings) :
    /\ galleryOpen
    /\ deletingId # ItemId(recordings[k])
    /\ Len(deletes) < MaxDeletes
    /\ deletingId' = ItemId(recordings[k])
    /\ deletes' = Append(deletes, NewDelete(recordings[k]))
    /\ UNCHANGED <<storage, files, remoteDb, recordings>>
    /\ DelFrame

\* FileSystem.deleteAsync of the video and of the audio file (errors ignored)
handleDelete_files ==
  \E d \in Running(deletes, "files") :
    /\ files' = files \ {<<"video", deletes[d].item.rec.videoPath>>,
                         <<"audio", deletes[d].item.rec.audioPath>>}
    /\ deletes' = [deletes EXCEPT ![d].pc = "read"]
    /\ UNCHANGED <<storage, remoteDb, recordings, deletingId>>
    /\ DelFrame

handleDelete_read ==
  \E d \in Running(deletes, "read"), readOk \in BOOLEAN :
    /\ deletes' = [deletes EXCEPT
                     ![d].list = FilterOut(GetLocalRecordings(readOk),
                                           deletes[d].item.rec.localId),
                     ![d].pc = "write"]
    /\ UNCHANGED <<storage, files, remoteDb, recordings, deletingId>>
    /\ DelFrame

handleDelete_write ==
  \E d \in Running(deletes, "write"), ok \in BOOLEAN :
    /\ IF ok
       THEN /\ storage' = deletes[d].list
            /\ recordings' = DropItem(recordings, ItemId(deletes[d].item))
       ELSE UNCHANGED <<storage, recordings>>
    /\ deletingId' = Null
    /\ deletes' = [deletes EXCEPT ![d] = DoneDelete(deletes[d], ok)]
    /\ UNCHANGED <<files, remoteDb>>
    /\ DelFrame

\* DELETE /api/recordings/{id} of a cloud entry settles
handleDelete_cloud ==
  \E d \in Running(deletes, "cloud"), ok \in BOOLEAN :
    /\ IF ok
       THEN /\ remoteDb' = [remoteDb EXCEPT ![Idx(deletes[d].item.id)].deleted = TRUE]
            /\ recordings' = DropItem(recordings, ItemId(deletes[d].item))
       ELSE UNCHANGED <<remoteDb, recordings>>
    /\ deletingId' = Null
    /\ deletes' = [deletes EXCEPT ![d] = DoneDelete(deletes[d], ok)]
    /\ UNCHANGED <<storage, files>>
    /\ DelFrame

\* ------------------------------------------------------------------ recorder (earlier revision)
\* The record button calls startRecording while isRecording is false and stopRecording
\* while it is true; nothing else disables it.
\* RECORD pressed: startRecording runs up to its await of POST /api/recordings
early_startRecording ==
  /\ device
  /\ ~isRecording
  /\ posts + Len(remoteDb) < MaxPosts
  /\ posts' = posts + 1
  /\ UNCHANGED <<now, envVars, recVars, timVars, capVars, nextLocal, stop, storage, files,
                 remoteDb, proms, galVars, eAudio, eStop>>

\* the create request of one startRecording call settles; on success the session state is
\* set, both intervals are created and the call waits for the audio recorder
early_startRecording_created ==
  /\ posts > 0
  /\ posts' = posts - 1
  /\ \E ok \in BOOLEAN :
       IF ok
       THEN /\ remoteDb' = RemoteCreate(remoteDb, Null)
            /\ currentRecording' = Rid(Len(remoteDb) + 1)
            /\ isRecording' = TRUE
            /\ frameCount' = 0
            /\ barcodeCount' = 0
            /\ recordingStartTime' = now
            /\ timerRef' = SecHandle
            /\ frameTimerRef' = FrameHandle
            /\ timers' = timers @@ (SecHandle :> [t0 |-> now, n |-> 0])
            /\ frameTimers' = frameTimers \cup {FrameHandle}
            /\ nextHandle' = nextHandle + 2
            /\ eAudio' = eAudio + 1
       ELSE UNCHANGED <<remoteDb, currentRecording, isRecording, frameCount, barcodeCount,
                        recordingStartTime, timVars, eAudio>>
  /\ UNCHANGED <<now, envVars, isSaving, recordingTime, barcodeScans, videoRecordingActive,
                 videoUriRef, capVars, nextLocal, stop, storage, files, proms, galVars,
                 eStop>>

\* prepareToRecordAsync and startAsync settle: audioRecording.current = recording
early_startRecording_audio ==
  /\ eAudio > 0
  /\ eAudio' = eAudio - 1
  /\ \E ok \in BOOLEAN :
       audioRecorder' = IF ok THEN [recording |-> TRUE, uri |-> 1] ELSE audioRecorder
  /\ UNCHANGED <<now, envVars, recVars, timVars, cameraPending, audioPrep, nextLocal, stop,
                 storage, files, remoteDb, proms, galVars, posts, eStop>>

\* STOP pressed: stopRecording up to its first await (one call at a time is followed)
early_stopRecording ==
  /\ isRecording
  /\ currentRecording # Null
  /\ eStop.pc = "idle"
  /\ isRecording' = FALSE
  /\ timers' = ClearInterval(timers, timerRef)
  /\ frameTimers' = frameTimers \ {frameTimerRef}
  /\ eStop' = [pc |-> IF audioRecorder.recording THEN "audio" ELSE "complete",
               cr |-> currentRecording]
  /\ UNCHANGED <<now, envVars, isSaving, currentRecording, recordingTime, frameCount,
                 barcodeScans, barcodeCount, videoRecordingActive, videoUriRef,
                 recordingStartTime, timerRef, frameTimerRef, nextHandle, capVars,
                 nextLocal, stop, storage, files, remoteDb, proms, galVars, posts, eAudio>>

\* stopAndUnloadAsync settles; a throw leaves the try block
early_stopRecording_audio ==
  /\ eStop.pc = "audio"
  /\ \E threw \in BOOLEAN :
       eStop' = IF threw THEN EarlyStopIdle ELSE [eStop EXCEPT !.pc = "upload"]
  /\ UNCHANGED <<now, envVars, recVars, timVars, capVars, nextLocal, stop, storage, files,
                 remoteDb, proms, galVars, posts, eAudio>>

\* the audio upload settles (a failure is swallowed); audioRecording.current = null
early_stopRecording_upload ==
  /\ eStop.pc = "upload"
  /\ \E ok \in BOOLEAN :
       remoteDb' = IF ok THEN RemoteAudio(remoteDb, eStop.cr) ELSE remoteDb
  /\ audioRecorder' = [recording |-> FALSE, uri |-> Null]
  /\ eStop' = [eStop EXCEPT !.pc = "complete"]
  /\ UNCHANGED <<now, envVars, recVars, timVars, cameraPending, audioPrep, nextLocal, stop,
                 storage, files, proms, galVars, posts, eAudio>>

\* PUT .../complete settles; on success the session state is cleared
early_stopRecording_complete ==
  /\ eStop.pc = "complete"
  /\ eStop' = EarlyStopIdle
  /\ \E ok \in BOOLEAN :
       IF ok
       THEN /\ remoteDb' = RemoteComplete(remoteDb, eStop.cr)
            /\ currentRecording' = Null
            /\ recordingTime' = 0
            /\ frameCount' = 0
       ELSE UNCHANGED <<remoteDb, currentRecording, recordingTime, frameCount>>
  /\ UNCHANGED <<now, envVars, isRecording, isSaving, barcodeScans, barcodeCount,
                 videoRecordingActive, videoUriRef, recordingStartTime, timVars, capVars,
                 nextLocal, stop, storage, files, proms, galVars, posts, eAudio>>

\* a badge is submitted: it is posted to the current recording and counted either way
early_handleBarcodeSubmit ==
  \E bc \in Payloads, ok \in BOOLEAN :
    /\ currentRecording # Null
    /\ barcodeCount < MaxScans
    /\ remoteDb' = IF ok THEN RemoteScan(remoteDb, currentRecording, NewScan(bc))
                   ELSE remoteDb
    /\ barcodeCount' = barcodeCount + 1
    /\ UNCHANGED <<now, envVars, isRecording, isSaving, currentRecording, recordingTime,
                   frameCount, barcodeScans, videoRecordingActive, videoUriRef,
                   recordingStartTime, timVars, capVars, nextLocal, stop, storage, files,
                   proms, galVars, earlyVars>>

\* ------------------------------------------------------------------ specifications
\* RECORD pressed for the first session of the run
startRecording_first == nextLocal = 1 /\ startRecording

Recorder ==
  \/ loadDevice \/ loadSettings \/ checkConnection
  \/ startRecording_first \/ startRecording_audio \/ recordAsync_settle
  \/ handleBarcode
  \/ stopRecording \/ stopRecording_poll \/ stopRecording_audio \/ stopRecording_write
  \/ uploadRecordingToCloud_create \/ uploadRecordingToCloud_video
  \/ uploadRecordingToCloud_audio \/ uploadRecordingToCloud_scan
  \/ uploadRecordingToCloud_complete \/ uploadRecordingToCloud_read
  \/ uploadRecordingToCloud_write

GalleryUploads ==
  \/ openGallery \/ fetchRecordings_local \/ fetchRecordings_cloud
  \/ uploadToCloud \/ uploadToCloud_create \/ uploadToCloud_video \/ uploadToCloud_audio
  \/ uploadToCloud_scan \/ uploadToCloud_complete \/ uploadToCloud_read
  \/ uploadToCloud_write

GalleryDeletes ==
  \/ refresh
  \/ handleDelete \/ handleDelete_files \/ handleDelete_read \/ handleDelete_write
  \/ handleDelete_cloud

\* A fresh installation: the recorder makes a session and promotes it or leaves it to
\* the gallery, which lists and promotes it; within one clock unit
Next == Recorder \/ GalleryUploads
Spec == Init /\ [][Next]_vars

\* The gallery over the records of earlier runs: listing, promotion, deletion, refresh
NextGallery == loadDevice \/ GalleryUploads \/ GalleryDeletes
SpecGallery == InitPrior /\ [][NextGallery]_vars

\* The recorder with its clocks: time passes and the intervals fire
NextClock ==
  \/ Advance \/ loadDevice
  \/ startRecording_first \/ startRecording_audio \/ recordAsync_settle
  \/ secondTick \/ frameTick \/ handleBarcode
  \/ stopRecording \/ stopRecording_poll \/ stopRecording_audio \/ stopRecording_write
SpecClock == Init /\ [][NextClock]_vars

\* The recorder over several sessions of one run, within one clock unit, auto-upload off
NextCapture ==
  \/ loadDevice
  \/ startRecording \/ startRecording_audio \/ recordAsync_settle
  \/ handleBarcode
  \/ stopRecording \/ stopRecording_poll \/ stopRecording_audio \/ stopRecording_write
SpecCapture == Init /\ [][NextCapture]_vars

\* The gallery listing and deleting the records of earlier runs
NextDelete ==
  \/ loadDevice \/ openGallery \/ refresh \/ fetchRecordings_local \/ fetchRecordings_cloud
  \/ handleDelete \/ handleDelete_files \/ handleDelete_read \/ handleDelete_write
SpecDelete == InitStored /\ [][NextDelete]_vars

\* The recorder of the earlier revision, with its clocks
NextEarly ==
  \/ Advance \/ loadDevice
  \/ early_startRecording \/ early_startRecording_created \/ early_startRecording_audio
  \/ secondTick \/ frameTick \/ early_handleBarcodeSubmit
  \/ early_stopRecording \/ early_stopRecording_audio \/ early_stopRecording_upload
  \/ early_stopRecording_complete
SpecEarly == Init /\ [][NextEarly]_vars

\* The gallery while time passes: the records of earlier runs are listed and promoted,
\* so that the remote entries carry later start times than the local records
NextView ==
  \/ Advance \/ loadDevice \/ refresh \/ GalleryUploads
SpecView == InitPrior /\ [][NextView]_vars

\* The recorder with auto-upload, the connection being sampled all along
NextAuto ==
  \/ loadDevice \/ loadSettings \/ checkConnection \/ checkConnection_interval
  \/ startRecording_first \/ startRecording_audio \/ recordAsync_settle
  \/ handleBarcode
  \/ stopRecording \/ stopRecording_poll \/ stopRecording_audio \/ stopRecording_write
  \/ uploadRecordingToCloud_create \/ uploadRecordingToCloud_video
  \/ uploadRecordingToCloud_audio \/ uploadRecordingToCloud_scan
  \/ uploadRecordingToCloud_complete \/ uploadRecordingToCloud_read
  \/ uploadRecordingToCloud_write
SpecAuto == Init /\ [][NextAuto]_vars

\* ------------------------------------------------------------------ properties
\* step 6 of some promotion of local session l has completed: its setItem succeeded
StepSixDone(l) ==
  \E p \in 1..Len(proms) :
    /\ proms[p].rec.localId = l
    /\ proms[p].pc = "done"
    /\ \E i \in 1..Len(proms[p].log) : proms[p].log[i] = Req("setItem", TRUE)

\* C1: while a session is Recording no begin() takes effect: from one Recording state to
\* the next the session keeps its identifier and its start time, its scan count does not
\* go back, and a single 1 Hz clock runs.
C1_SingleSession ==
  [][(isRecording /\ isRecording') =>
       /\ currentRecording' = currentRecording
       /\ recordingStartTime' = recordingStartTime
       /\ barcodeCount' >= barcodeCount
       /\ Cardinality(DOMAIN timers') <= 1]_vars

\* C2: in every stored session each scan's video timestamp is at least 0 and at most the
\* stored duration (both in clock units), and the timestamps do not decrease along the list.
C2_TimestampsWithinDuration ==
  \A k \in 1..Len(storage) :
    LET scans == storage[k].barcodeScansList
    IN \A i \in 1..Len(scans) :
         /\ scans[i].video_timestamp >= 0
         /\ scans[i].video_timestamp <= storage[k].duration * SubSec
         /\ i > 1 => scans[i - 1].video_timestamp <= scans[i].video_timestamp

\* C3: the stored list reflects every completed operation: a session whose removal has
\* completed is not in the list (no resurrected entry), and a session whose markUploaded
\* has completed is, while it is in the list, stored as uploaded (no lost update).
C3_NoLostUpdate ==
  /\ \A d \in 1..Len(deletes) :
       (deletes[d].pc = "done" /\ deletes[d].item.source = "local") =>
          \A k \in 1..Len(storage) : storage[k].localId # deletes[d].item.rec.localId
  /\ \A k \in 1..Len(storage) :
       StepSixDone(storage[k].localId) => storage[k].isUploaded

\* C4: promotion is one-way: a session stored as uploaded with remote identifier R is, in
\* the next state of the store that still holds it, stored as uploaded with identifier R.
C4_PromotionOneWay ==
  [][\A k \in 1..Len(storage) : \A j \in 1..Len(storage') :
       (storage[k].isUploaded /\ storage'[j].localId = storage[k].localId) =>
          /\ storage'[j].isUploaded
          /\ storage'[j].id = storage[k].id]_vars

\* C5: once step 6 has completed for a session no promotion is started for it again (so
\* no further remote entry is created and nothing is submitted again for it).
C5_NoRepromotion ==
  [][Len(proms') > Len(proms) =>
       ~StepSixDone(proms'[Len(proms')].rec.localId)]_vars

\* the first request of a promotion is its create request: it failed
CreateFailed(pr) == Len(pr.log) > 0 /\ pr.log[1] = Req("create", FALSE)
\* the promotion issued the request and it had this result
Logged(pr, call, ok) == \E i \in 1..Len(pr.log) : pr.log[i] = Req(call, ok)

\* C6: a promotion whose create request failed has ended by raising (recorder) or by its
\* failure alert (gallery), has issued no other request and holds no remote identifier;
\* the step in which the create fails changes neither the store nor the remote service.
C6_CreateFailureAborts ==
  [][\A p \in 1..Len(proms') :
       CreateFailed(proms'[p]) =>
          /\ proms'[p].pc = "done"
          /\ proms'[p].outcome \in {"raised", "failed"}
          /\ proms'[p].log = <<Req("create", FALSE)>>
          /\ proms'[p].rid = Null
          /\ (p <= Len(proms) /\ ~CreateFailed(proms[p])) =>
                (storage' = storage /\ remoteDb' = remoteDb)]_vars

\* C6 witness: a session was promoted from the recorder and from the gallery, the create
\* request failed both times, and the session is stored not uploaded, without identifier
C6_Witness ==
  /\ \E p \in 1..Len(proms), q \in 1..Len(proms) :
       /\ proms[p].path = "rec" /\ CreateFailed(proms[p])
       /\ proms[q].path = "gal" /\ CreateFailed(proms[q])
       /\ proms[p].rec.localId = proms[q].rec.localId
       /\ \E k \in 1..Len(storage) :
            /\ storage[k].localId = proms[p].rec.localId
            /\ ~storage[k].isUploaded
            /\ storage[k].id = Null

\* C7: a promotion that has ended and whose only failed request is the video upload, or
\* the audio upload, has ended well (step 6 was reached).
C7_MediaFailureSwallowed ==
  \A p \in 1..Len(proms) :
    (/\ proms[p].pc = "done"
     /\ \E i \in 1..Len(proms[p].log) :
          /\ ~proms[p].log[i].ok
          /\ proms[p].log[i].call \in {"video", "audio"}
          /\ \A j \in 1..Len(proms[p].log) : j # i => proms[p].log[j].ok)
       => proms[p].outcome = "ok"

SwallowedIn(path, call) ==
  call = "scan" \/ (path = "rec" /\ call \in {"video", "audio"})

C9_NeverLocalAndCloud ==
  \A a \in 1..Len(recordings), b \in 1..Len(recordings) :
    (/\ recordings[a].source = "local"
     /\ recordings[b].source = "cloud"
     /\ remoteDb[Idx(recordings[b].id)].forLocal = recordings[a].rec.localId)
       => ~StepSixDone(recordings[a].rec.localId)

\* C10: in the step in which stopRecording returns the controller is Idle: not recording,
\* not saving, no current recording, and the scan list, the elapsed seconds and the frame
\* counter are cleared.
C10_IdleAfterEnd ==
  [][(stop.pc # "idle" /\ stop'.pc = "idle") =>
       /\ ~isRecording' /\ ~isSaving'
       /\ currentRecording' = Null
       /\ barcodeScans' = <<>>
       /\ barcodeCount' = 0
       /\ recordingTime' = 0
       /\ frameCount' = 0]_vars

\* C11: stopRecording always gets to write its record, whatever media it obtained: when
\* the audio stop has settled the record is assembled with the session's scan list and
\* elapsed seconds, not uploaded; and a record without video and without audio handle is
\* put at the head of the stored list unless the write itself is rejected.
C11_RecordWithoutMedia ==
  [][/\ (stop.pc = "audio" /\ stop'.pc # "audio") =>
          /\ stop'.pc = "write"
          /\ stop'.rec.localId = currentRecording
          /\ stop'.rec.barcodeScansList = barcodeScans
          /\ stop'.rec.duration = recordingTime
          /\ ~stop'.rec.isUploaded
     /\ (/\ stop.pc = "write" /\ stop'.pc # "write"
         /\ stop.rec.videoPath = Null /\ stop.rec.audioPath = Null) =>
          \/ storage' = storage
          \/ Len(storage') > 0 /\ storage'[1] = stop.rec]_vars

\* C11 witness: a session with a scan and one elapsed second is stored without video and
\* without audio handle, not uploaded
C11_Witness ==
  \E k \in 1..Len(storage) :
    /\ storage[k].videoPath = Null /\ storage[k].audioPath = Null
    /\ Len(storage[k].barcodeScansList) > 0
    /\ storage[k].duration > 0
    /\ ~storage[k].isUploaded

\* C12: a session whose audio capture did not start (its prepareToRecordAsync failed: no
\* audio file of the session exists and no start is pending) is stored without audio handle.
C12_NoAudioHandleWithoutAudio ==
  \A k \in 1..Len(storage) :
    (/\ <<"audio", storage[k].localId>> \notin files
     /\ storage[k].localId \notin audioPrep)
       => storage[k].audioPath = Null

\* C13: the poll loop of stopRecording makes at most MaxPolls turns (100 in the code):
\* while it polls fewer than MaxPolls turns are done; it is left for the audio stop with
\* the uri then held by videoUriRef, absent when none has arrived; and the audio stop is
\* followed by the write of a record with that video handle.
C13_PollBounded ==
  [][/\ stop'.i <= MaxPolls
     /\ stop'.pc = "poll" => stop'.i < MaxPolls
     /\ (stop.pc = "poll" /\ stop'.pc # "poll") =>
          /\ stop'.pc = "audio"
          /\ stop'.videoUri = videoUriRef
     /\ (stop.pc = "audio" /\ stop'.pc # "audio") =>
          /\ stop'.pc = "write"
          /\ stop'.rec.videoPath = stop.videoUri]_vars

\* C13 witness: the camera has not settled its recordAsync promise, all MaxPolls turns
\* were made, and the record is about to be written without video handle
C13_Witness ==
  /\ stop.pc = "write"
  /\ stop.i = MaxPolls
  /\ stop.rec.videoPath = Null
  /\ stop.rec.localId \in cameraPending

\* C14: while a session is Recording its scan list only grows at its end, by one event per
\* counted scan, and the events already in it keep their place; the record assembled by
\* stopRecording, and the record written, hold exactly that list.
C14_ScansAppendOnly ==
  [][/\ (isRecording /\ isRecording') =>
          /\ Len(barcodeScans') \in {Len(barcodeScans), Len(barcodeScans) + 1}
          /\ SubSeq(barcodeScans', 1, Len(barcodeScans)) = barcodeScans
          /\ barcodeCount' - barcodeCount = Len(barcodeScans') - Len(barcodeScans)
     /\ (stop.pc # "write" /\ stop'.pc = "write") =>
          stop'.rec.barcodeScansList = barcodeScans
     /\ (stop.pc = "write" /\ storage' # storage) =>
          storage'[1].barcodeScansList = barcodeScans]_vars

\* C14 witness: a stored session holds two events with the same payload
C14_Witness ==
  \E k \in 1..Len(storage) :
    /\ Len(storage[k].barcodeScansList) = 2
    /\ storage[k].barcodeScansList[1].barcode_data
         = storage[k].barcodeScansList[2].barcode_data

\* C15: while the controller is not Recording no scan is accepted: the scan list and the
\* scan count stay as they are or are cleared, the scan list held by a stopRecording call
\* in progress and the record it has assembled do not change, and a session that starts,
\* starts with an empty list and a count of 0.
C15_ScanRejectedOutsideRecording ==
  [][/\ ~isRecording =>
          /\ barcodeScans' = barcodeScans \/ barcodeScans' = <<>>
          /\ barcodeCount' = barcodeCount \/ barcodeCount' = 0
     /\ (stop.pc # "idle" /\ stop'.pc # "idle") => stop'.cl.scans = stop.cl.scans
     /\ (stop.pc \in {"write", "upload"} /\ stop'.pc # "idle") => stop'.rec = stop.rec
     /\ (~isRecording /\ isRecording') =>
          (barcodeScans' = <<>> /\ barcodeCount' = 0)]_vars

\* C15 witness: stopRecording is in progress (Finalizing) for a session that has one scan
\* and room for more, and the badge input is on screen
C15_Witness ==
  /\ ~isRecording /\ isSaving /\ ~galleryOpen
  /\ stop.pc = "write"
  /\ Len(barcodeScans) = 1
  /\ Len(barcodeScans) < MaxScans
  /\ stop.rec.barcodeScansList = barcodeScans

\* C16: the step of stopRecording that starts the auto-upload has written the record:
\* the promotion starts with no request issued and the record is at the head of the
\* stored list, not uploaded; and whatever the promotion's requests do, the session of a
\* promotion started by the recorder is in the store.
C16_StoredBeforePromotion ==
  [][/\ (Len(proms') > Len(proms) /\ proms'[Len(proms')].path = "rec") =>
          /\ proms'[Len(proms')].log = <<>>
          /\ Len(storage') > 0
          /\ storage'[1] = proms'[Len(proms')].rec
          /\ ~storage'[1].isUploaded
          /\ remoteDb' = remoteDb
     /\ \A p \in 1..Len(proms') :
          proms'[p].path = "rec" =>
             \E k \in 1..Len(storage') : storage'[k].localId = proms'[p].rec.localId]_vars

\* C16 witness: the auto-upload of a session failed at its first request, nothing was
\* created remotely, and the session is stored, not uploaded
C16_Witness ==
  \E p \in 1..Len(proms) :
    /\ proms[p].path = "rec"
    /\ proms[p].outcome = "raised"
    /\ remoteDb = <<>>
    /\ stop.pc = "idle"
    /\ \E k \in 1..Len(storage) :
         /\ storage[k] = proms[p].rec
         /\ ~storage[k].isUploaded

\* C17: a call of getLocalRecordings never ends its caller: fetchRecordings goes on to
\* the remote listing, stopRecording goes on to its write and a promotion goes on with
\* step 6 or ends well, each holding the stored list or, when the read failed, the empty
\* list.
C17_ListNeverFails ==
  [][/\ \A f \in 1..Len(fetches) :
          (fetches[f].pc = "local" /\ fetches'[f].pc # "local") =>
             /\ fetches'[f].pc = "cloud"
             /\ fetches'[f].local \in {storage, <<>>}
     /\ (stop.pc = "audio" /\ stop'.pc # "audio") =>
          /\ stop'.pc = "write"
          /\ stop'.existing \in {storage, <<>>}
     /\ \A p \in 1..Len(proms) :
          (proms[p].pc = "read" /\ proms'[p].pc # "read") =>
             \/ proms'[p].pc = "write"
             \/ proms'[p].pc = "done" /\ proms'[p].outcome = "ok"]_vars

\* C17 witness: the store holds a session, the read of a fetchRecordings call failed, and
\* the call goes on to the remote listing with an empty local list
C17_Witness ==
  \E f \in 1..Len(fetches) :
    /\ fetches[f].pc = "cloud"
    /\ fetches[f].local = <<>>
    /\ storage # <<>>

\* C18: a write of stopRecording that changes the stored list puts the new record at its
\* head, followed by the sessions stored before, unchanged and in their order.
C18_AppendAtHead ==
  [][(stop.pc = "write" /\ storage' # storage) =>
       storage' = <<stop.rec>> \o storage]_vars

\* C19: a write of handleDelete that changes the stored list removes exactly the entry
\* with the deleted identifier: every other entry stays, in its order.
C19_RemoveExactlyOne ==
  [][\A d \in 1..Len(deletes) :
       (deletes[d].pc = "write" /\ deletes'[d].pc # "write" /\ storage' # storage) =>
          storage' = FilterOut(storage, deletes[d].item.rec.localId)]_vars

\* C20: once the clock is stopped it stays stopped and its values stay: while the
\* controller is not Recording the elapsed seconds and the frame counter keep their value
\* until they are reset to 0, and clearing the two intervals again changes nothing (the
\* handles the refs hold are not live).
C20_ClockStopIdempotent ==
  [][~isRecording' =>
       /\ ClearInterval(timers', timerRef') = timers'
       /\ frameTimers' \ {frameTimerRef'} = frameTimers'
       /\ ~isRecording =>
            /\ recordingTime' \in {recordingTime, 0}
            /\ frameCount' \in {frameCount, 0}]_vars

\* C20 witness: the clock was stopped after one second and one frame, stopRecording is
\* still in progress, and time has gone on
C20_Witness ==
  /\ ~isRecording /\ stop.pc # "idle"
  /\ stop.cl.rt = 1 /\ recordingTime = 1 /\ frameCount = MaxFrame
  /\ timerRef # Null /\ timers = <<>> /\ frameTimers = {}
  /\ now > recordingStartTime + SubSec

\* the ordering key of a view entry: the creation timestamp of a local session, the
\* start time the remote service holds for a cloud session
OrderingKey(item) ==
  IF item.source = "local" THEN item.rec.createdAt
  ELSE remoteDb[Idx(item.id)].start_time

\* C21: the view is ordered most-recent-first: of two adjacent entries the earlier one's
\* ordering key is at least the later one's.
C21_ViewNewestFirst ==
  \A k \in 1..(Len(recordings) - 1) :
    OrderingKey(recordings[k]) >= OrderingKey(recordings[k + 1])

\* C21 witness: the view shows a cloud session before a local session that is older,
\* though the local sessions were put into the combined list first
C21_Witness ==
  /\ Len(recordings) >= 2
  /\ recordings[1].source = "cloud"
  /\ recordings[2].source = "local"
  /\ OrderingKey(recordings[1]) > OrderingKey(recordings[2])


\* the place of a request in the fixed order of a promotion
Rank(call) ==
  CASE call = "create"   -> 1
    [] call = "video"    -> 2
    [] call = "audio"    -> 3
    [] call = "scan"     -> 4
    [] call = "complete" -> 5
    [] call = "setItem"  -> 6

\* how many scan submissions the promotion has issued
ScansIssued(pr) == Cardinality({i \in 1..Len(pr.log) : pr.log[i].call = "scan"})

\* C22: the requests of a promotion are issued in the order create, video upload, audio
\* upload, scan submissions, complete, write of the stored list, each at most once but for
\* the scans; nothing is issued after create unless create succeeded and gave the remote
\* identifier; complete is issued only when every scan of the session has been submitted;
\* the stored list is written only after complete succeeded, and a session is stored as
\* uploaded only if a promotion of it got its complete request through.
C22_PromotionOrder ==
  /\ \A p \in 1..Len(proms) :
       LET log == proms[p].log
       IN /\ Len(log) > 0 => log[1].call = "create"
          /\ Len(log) > 1 => (log[1].ok /\ proms[p].rid # Null)
          /\ \A i \in 1..Len(log) : \A j \in (i + 1)..Len(log) :
               \/ Rank(log[i].call) < Rank(log[j].call)
               \/ log[i].call = "scan" /\ log[j].call = "scan"
          /\ (Logged(proms[p], "complete", TRUE) \/ Logged(proms[p], "complete", FALSE)) =>
               ScansIssued(proms[p]) = Len(proms[p].rec.barcodeScansList)
          /\ (proms[p].pc \in {"read", "write"} \/ Logged(proms[p], "setItem", TRUE)
                \/ Logged(proms[p], "setItem", FALSE)) =>
               Logged(proms[p], "complete", TRUE)
  /\ \A k \in 1..Len(storage) :
       storage[k].isUploaded =>
          \E p \in 1..Len(proms) :
            /\ proms[p].rec.localId = storage[k].localId
            /\ proms[p].rid = storage[k].id
            /\ Logged(proms[p], "complete", TRUE)

\* C22 witness: the recorder's promotion of a session with video, audio and two scans has
\* issued all seven requests and the session is stored as uploaded
C22_Witness ==
  \E p \in 1..Len(proms) :
    /\ proms[p].path = "rec"
    /\ proms[p].outcome = "ok"
    /\ Len(proms[p].log) = 7
    /\ \E k \in 1..Len(storage) :
         storage[k].localId = proms[p].rec.localId /\ storage[k].isUploaded


\* the scan submissions a promotion has issued, in the order it issued them
ScanLog(pr) == SelectSeq(pr.log, LAMBDA r : r.call = "scan")

\* the events of the list whose submission (the one at the same place of slog) succeeded
RECURSIVE AcceptedScans(_, _)
AcceptedScans(scans, slog) ==
  IF slog = <<>> THEN <<>>
  ELSE (IF Head(slog).ok THEN <<Head(scans)>> ELSE <<>>)
         \o AcceptedScans(Tail(scans), Tail(slog))

\* C23: a promotion submits the scan events of its session one by one in list order, each
\* once: the remote entry holds exactly the events whose submission succeeded, in list
\* order; a failed submission is never the promotion's last request, and once the scan
\* loop is left (complete is the next or a past request) every event has been submitted.
C23_EveryScanSubmittedOnce ==
  \A p \in 1..Len(proms) :
    LET scans == proms[p].rec.barcodeScansList
        slog  == ScanLog(proms[p])
    IN /\ Len(slog) <= Len(scans)
       /\ proms[p].rid # Null =>
            remoteDb[Idx(proms[p].rid)].scans = AcceptedScans(scans, slog)
       /\ proms[p].pc = "scan" => proms[p].k = Len(slog) + 1
       /\ (proms[p].pc \in {"complete", "read", "write"}
             \/ Logged(proms[p], "complete", TRUE)
             \/ Logged(proms[p], "complete", FALSE)) => Len(slog) = Len(scans)
       /\ \A i \in 1..Len(proms[p].log) :
            (proms[p].log[i].call = "scan" /\ ~proms[p].log[i].ok) =>
               /\ proms[p].pc = "done" => i < Len(proms[p].log)
               /\ proms[p].pc \notin {"scan", "done"} => Len(slog) = Len(scans)

\* C23 witness: of the two events of a session the first submission failed, the second
\* succeeded, the promotion went on to end well, and the remote entry holds the second
\* event only
C23_Witness ==
  \E p \in 1..Len(proms) :
    /\ Len(proms[p].rec.barcodeScansList) = 2
    /\ ScanLog(proms[p]) = <<Req("scan", FALSE), Req("scan", TRUE)>>
    /\ proms[p].outcome = "ok"
    /\ Logged(proms[p], "setItem", TRUE)
    /\ remoteDb[Idx(proms[p].rid)].scans = <<proms[p].rec.barcodeScansList[2]>>


\* C24: stopRecording stores the video handle its session has obtained: when the record is
\* assembled and videoUriRef holds the handle the capture of this session has yielded
\* (whether it arrived during the poll loop or before STOP was pressed), the record's
\* video handle is that handle.
C24_ObtainedVideoStored ==
  [][(stop.pc = "audio" /\ stop'.pc = "write" /\ videoUriRef = stop.cl.cr) =>
       stop'.rec.videoPath = videoUriRef]_vars


\* C25: step 6 of a promotion changes only the entry of its session: the write that ends
\* it leaves the stored list as it is but for the remote identifier and the uploaded flag
\* of the entry with the session's local identifier; when the list read holds no such
\* entry the promotion ends without writing.
C25_MarkUploadedFrame ==
  [][\A p \in 1..Len(proms) :
       (proms[p].pc \in {"read", "write"} /\ proms'[p].pc = "done") =>
          LET idx == FindIndex(storage, proms[p].rec.localId)
          IN IF Logged(proms'[p], "setItem", TRUE)
             THEN /\ idx # 0
                  /\ storage' = MarkUploaded(storage, idx, proms[p].rid)
             ELSE storage' = storage]_vars


\* C26: a session enters Recording with the elapsed seconds and the frame counter at 0,
\* whatever the session before left in them; while Recording neither counter goes back;
\* and once stopRecording has begun (the controller is no longer Recording) neither
\* counter advances.
C26_CountersRestart ==
  [][/\ (~isRecording /\ isRecording') =>
          (recordingTime' = 0 /\ frameCount' = 0)
     /\ (isRecording /\ isRecording') =>
          (recordingTime' >= recordingTime /\ frameCount' >= frameCount)
     /\ (~isRecording /\ ~isRecording') =>
          (recordingTime' <= recordingTime /\ frameCount' <= frameCount)]_vars


\* C27: the result of a capture whose session has been finalized has no effect on a later
\* session: when the recordAsync promise of a session other than the current one settles
\* while a later session is current, neither videoUriRef nor videoRecordingActive
\* changes; and no stored record carries the video handle of another session.
C27_LateResultIgnored ==
  [][/\ \A s \in cameraPending \ cameraPending' :
          (currentRecording # Null /\ s # currentRecording) =>
             /\ videoUriRef' = videoUriRef
             /\ videoRecordingActive' = videoRecordingActive
     /\ \A k \in 1..Len(storage') :
          storage'[k].videoPath \in {Null, storage'[k].localId}]_vars


\* C28: at most one promotion of a local session is in flight: no two promotions that are
\* still running (started by stopRecording's auto-upload or from the gallery) are of the
\* same session.
C28_OnePromotionInFlight ==
  \A p \in 1..Len(proms), q \in 1..Len(proms) :
    (/\ p # q
     /\ proms[p].outcome = "running"
     /\ proms[q].outcome = "running")
       => proms[p].rec.localId # proms[q].rec.localId


\* C29: in the stored list an entry is flagged uploaded exactly when it has a remote
\* identifier.
C29_UploadedIffRemoteId ==
  \A k \in 1..Len(storage) : storage[k].isUploaded <=> (storage[k].id # Null)

\* C29 witness: a session written by stopRecording without identifier has been promoted
\* and is stored as uploaded under the identifier the remote service gave
C29_Witness ==
  \E k \in 1..Len(storage), p \in 1..Len(proms) :
    /\ proms[p].rec.localId = storage[k].localId
    /\ proms[p].rec.id = Null /\ ~proms[p].rec.isUploaded
    /\ storage[k].isUploaded
    /\ storage[k].id = proms[p].rid
    /\ storage[k].id # Null


\* C30: stopRecording starts a promotion only when auto-upload is on, the last
\* connectivity check reported online and the record has a video or an audio handle; a
\* stopRecording call that ends without promotion has issued no remote request and leaves
\* the session stored not uploaded; and a promotion that raises leaves the stored list as
\* it is.
C30_AutoUploadOnlyWhenWanted ==
  [][/\ (Len(proms') > Len(proms) /\ proms'[Len(proms')].path = "rec") =>
          /\ autoUpload
          /\ isOnline
          /\ stop.rec.videoPath # Null \/ stop.rec.audioPath # Null
     /\ (stop.pc = "write" /\ stop'.pc = "idle") =>
          /\ remoteDb' = remoteDb
          /\ proms' = proms
          /\ storage' # storage => ~storage'[1].isUploaded
     /\ \A p \in 1..Len(proms) :
          (proms[p].path = "rec" /\ proms[p].outcome = "running"
             /\ proms'[p].outcome = "raised") => storage' = storage]_vars

====
